---- MODULE Spec2Model ----
(***************************************************************************)
(* Model of django_websocket/protocols.py: class WebSocketProtocol, the    *)
(* RFC 6455 framing layer over a blocking socket (Python 2 semantics:      *)
(* byte strings are `str`, str.encode('utf8') first decodes as ASCII).     *)
(*                                                                         *)
(* A byte is a number in 0..255, a byte string a sequence of bytes.  The   *)
(* socket is modelled by what the connection can observe of it: the bytes  *)
(* the peer has sent followed by end of stream, the frames handed to       *)
(* sock.send, the number of sock.close() invocations, and whether writes   *)
(* fail.  How many bytes one sock.recv returns is an input of each call    *)
(* (a schedule of per-read caps), as arrival timing decides it.            *)
(***************************************************************************)
EXTENDS Integers, Sequences, FiniteSets, TLC

\* ------------------------------------------------------------- constants
LENGTH_16 == 65536
OPCODE_TEXT == 1
OPCODE_BINARY == 2
OPCODE_CLOSE == 8
OPCODE_PING == 9
OPCODE_PONG == 10

\* ------------------------------------------------------------- bounds
\* capacity, in bytes, of what the peer has sent before the first call
SockBuf == 6
\* longest scripted schedule of short reads given to one receive call
MaxSched == 2
\* sock.close() invocations followed in one behaviour
MaxCloses == 2
\* most writes of one receive call after which the peer may go away
MaxLeave == 2

\* ------------------------------------------------------------- bytes
Min(a, b) == IF a < b THEN a ELSE b

RECURSIVE BitXor(_, _)
\* Python's a ^ b on non-negative integers
BitXor(a, b) ==
    IF a = 0 THEN b
    ELSE IF b = 0 THEN a
    ELSE (((a % 2) + (b % 2)) % 2) + 2 * BitXor(a \div 2, b \div 2)

RECURSIVE BitOr(_, _)
\* Python's a | b on non-negative integers
BitOr(a, b) ==
    IF a = 0 THEN b
    ELSE IF b = 0 THEN a
    ELSE (IF (a % 2) = 1 \/ (b % 2) = 1 THEN 1 ELSE 0) + 2 * BitOr(a \div 2, b \div 2)

\* struct.pack("!H", n), for n in 0..65535
PackH(n) == << n \div 256, n % 256 >>

\* struct.pack("!Q", n): eight bytes, big-endian.  Every length of the model is
\* below 2^31, so the four high bytes are zero.
PackQ(n) ==
    << 0, 0, 0, 0,
       (n \div 16777216) % 256, (n \div 65536) % 256, (n \div 256) % 256, n % 256 >>

RECURSIVE UnpackBE(_)
\* struct.unpack("!H", b)[0] and struct.unpack("!Q", b)[0]: big-endian value
UnpackBE(b) ==
    IF b = << >> THEN 0
    ELSE 256 * UnpackBE(SubSeq(b, 1, Len(b) - 1)) + b[Len(b)]

\* ------------------------------------------------------------- one call
\* The state a call of a method works on: self.closed, self.mask_outgoing and
\* the socket (in: unread bytes sent by the peer, then end of stream; sched: caps
\* on the sizes of the coming reads; wsched: caps on the number of bytes the
\* coming writes accept; out: what sock.send accepted, write by write, in this
\* call; nclose: sock.close() invocations; werr: the peer is gone, writes fail;
\* unread: the peer has not read all that was written to it; rerr: the peer went
\* with bytes unread, the read that finds the stream at its end fails; stay and
\* rdall: the peer goes away once stay more writes have been accepted, 0 for a
\* peer that stays, having read them all or not), with records kept
\* for the properties: viol counts the sock.recv/sock.send attempts made while
\* self.closed was set, frames lists the frames recv_data took from recv_frame,
\* recvs lists the number of bytes each sock.recv returned, given lists the
\* byte strings handed to sock.send.
Ret(io, v) == [io |-> io, exc |-> "none", val |-> v]
Raise(io, e) == [io |-> io, exc |-> e, val |-> << >>]

Attempt(io) == [io EXCEPT !.viol = @ + (IF io.closed THEN 1 ELSE 0)]

\* self.sock.recv(bufsize): on a closed socket raises socket.error (EBADF);
\* otherwise returns at most bufsize of the bytes that have arrived; at the end
\* of the stream it returns "", but raises socket.error (ECONNRESET), once, when
\* the peer went away with bytes unread
SockRecv(io, bufsize) ==
    LET a == Attempt(io)
        cap == IF a.sched = << >> THEN bufsize ELSE Min(bufsize, Head(a.sched))
        n == Min(cap, Len(a.in))
    IN  IF a.nclose > 0 THEN Raise(a, "socket.error")
        ELSE IF a.in = << >> /\ a.rerr THEN Raise([a EXCEPT !.rerr = FALSE], "socket.error")
        ELSE Ret([a EXCEPT !.in = SubSeq(a.in, n + 1, Len(a.in)),
                           !.sched = IF a.sched = << >> THEN << >> ELSE Tail(a.sched),
                           !.recvs = Append(@, n)],
                 SubSeq(a.in, 1, n))

\* the peer after a write was accepted: it goes away when this was the last
\* write it stayed for
Accepted(io) ==
    IF io.stay = 1
    THEN [io EXCEPT !.stay = 0, !.werr = TRUE, !.rerr = ~io.rdall, !.unread = FALSE]
    ELSE [io EXCEPT !.stay = IF @ = 0 THEN 0 ELSE @ - 1, !.unread = TRUE]

\* self.sock.send(frame): raises socket.error (an IOError) on a closed socket or
\* a broken connection; otherwise the socket accepts the frame, or as many of
\* its first bytes as it has room for, and returns their number
SockSend(io, frame) ==
    LET a == Attempt([io EXCEPT !.given = Append(@, frame)])
        n == IF a.wsched = << >> THEN Len(frame) ELSE Min(Len(frame), Head(a.wsched))
    IN  IF a.nclose > 0 \/ a.werr THEN Raise(a, "socket.error")
        ELSE Ret(Accepted(
                 [a EXCEPT !.out = Append(a.out, SubSeq(frame, 1, n)),
                           !.wsched = IF a.wsched = << >> THEN << >> ELSE Tail(a.wsched)]),
                 n)

\* self.sock.sendall(data): raises socket.error on a closed socket or a broken
\* connection; otherwise writes until the socket has accepted all of data, and
\* returns None
SockSendAll(io, data) ==
    LET a == Attempt([io EXCEPT !.given = Append(@, data)])
    IN  IF a.nclose > 0 \/ a.werr THEN Raise(a, "socket.error")
        ELSE Ret(Accepted([a EXCEPT !.out = Append(a.out, data)]), << >>)

\* close(self): sock.close() drops what the socket held about its peer
close(io) ==
    [io EXCEPT !.closed = TRUE, !.nclose = @ + 1, !.unread = FALSE, !.rerr = FALSE]

\* mask_or_unmask with the key index taken modulo 3
mask_or_unmask_mod3(mask_key, data) ==
    [i \in 1..Len(data) |-> BitXor(data[i], mask_key[((i - 1) % 3) + 1])]

\* mask_or_unmask(cls, mask_key, data)
mask_or_unmask(mask_key, data) ==
    [i \in 1..Len(data) |-> BitXor(data[i], mask_key[((i - 1) % 4) + 1])]

RECURSIVE RecvStrictLoop(_, _, _)
\* the while loop with the end of the stream taken as the end of the data
RecvStrictLoop_partial(io, bufsize, bytes) ==
    IF bufsize - Len(bytes) = 0 THEN Ret(io, bytes)
    ELSE LET r == SockRecv(io, bufsize)
         IN  IF r.exc # "none" THEN r
             ELSE IF r.val = << >> THEN Ret(r.io, bytes)
             ELSE RecvStrictLoop(r.io, bufsize, bytes \o r.val)

\* the while loop of _recv_strict
RecvStrictLoop(io, bufsize, bytes) ==
    IF bufsize - Len(bytes) = 0 THEN Ret(io, bytes)
    ELSE LET r == SockRecv(io, bufsize)
         IN  IF r.exc # "none" THEN r
             ELSE IF r.val = << >> THEN Raise(r.io, "socket.error")
             ELSE RecvStrictLoop(r.io, bufsize, bytes \o r.val)

\* _recv_strict(self, bufsize)
_recv_strict(io, bufsize) == RecvStrictLoop(io, bufsize, << >>)

\* a frame as recv_frame returns it: (fin, opcode, data), or (None, None, None)
Frame(fin, opcode, data) == [none |-> FALSE, fin |-> fin, opcode |-> opcode, data |-> data]
NoFrame == [none |-> TRUE, fin |-> 0, opcode |-> 0, data |-> << >>]

\* recv_frame: the payload d has been read; it is unmasked with mask_key when
\* the MASK bit of b2 is set
FrameRead(b1, b2, mask_key, d) ==
    IF d.exc # "none" THEN d
    ELSE Ret(d.io, Frame((b1 \div 128) % 2, b1 % 16,
                         IF (b2 \div 128) % 2 = 1 THEN mask_or_unmask(mask_key, d.val)
                         ELSE d.val))

\* recv_frame: the mask key has been read (key), length payload bytes follow
ReadPayload(b1, b2, length, key) ==
    IF key.exc # "none" THEN key
    ELSE FrameRead(b1, b2, key.val, _recv_strict(key.io, length))

\* the length code 126 decoded as if it were a literal length
FrameLength_literal126(b2, length_data) ==
    IF (b2 % 128) = 127 THEN UnpackBE(length_data) ELSE b2 % 128

\* recv_frame: the payload length, from the second header byte and the extended
\* length bytes read after it
FrameLength(b2, length_data) ==
    IF (b2 % 128) \in {126, 127} THEN UnpackBE(length_data) ELSE b2 % 128

\* recv_frame: the extended length bytes that follow the second header byte b2
ReadExt(io, b2) ==
    IF b2 % 128 = 126 THEN _recv_strict(io, 2)
    ELSE IF b2 % 128 = 127 THEN _recv_strict(io, 8)
    ELSE Ret(io, << >>)

\* recv_frame: the extended length has been read (ext); the mask key follows
\* when the MASK bit of b2 is set
ReadMaskKey(b1, b2, ext) ==
    IF ext.exc # "none" THEN ext
    ELSE ReadPayload(b1, b2, FrameLength(b2, ext.val),
                     IF (b2 \div 128) % 2 = 1 THEN _recv_strict(ext.io, 4)
                     ELSE Ret(ext.io, << >>))

\* recv_frame: the two header bytes have been read (h)
ReadLength(h) ==
    IF h.exc # "none" THEN h
    ELSE IF h.val = << >> THEN Ret(h.io, NoFrame)
    ELSE ReadMaskKey(h.val[1], h.val[2], ReadExt(h.io, h.val[2]))

\* recv_frame(self)
recv_frame(io) == ReadLength(_recv_strict(io, 2))

\* ------------------------------------------------------------- sending
\* a Python 2 string: a byte string (str) or a text (unicode, code points)
Str(b) == [kind |-> "str", v |-> b]
Uni(c) == [kind |-> "unicode", v |-> c]

\* the UTF-8 encoding of one code point below 0x10000
Utf8Char(c) ==
    IF c < 128 THEN << c >>
    ELSE IF c < 2048 THEN << 192 + (c \div 64), 128 + (c % 64) >>
    ELSE << 224 + (c \div 4096), 128 + ((c \div 64) % 64), 128 + (c % 64) >>

\* the UTF-8 encoding of the code point above 0xFFFF that the high surrogate h
\* and the low surrogate l stand for together
Utf8Pair(h, l) ==
    LET c == 65536 + 1024 * (h - 55296) + (l - 56320)
    IN  << 240 + (c \div 262144), 128 + ((c \div 4096) % 64),
           128 + ((c \div 64) % 64), 128 + (c % 64) >>

RECURSIVE Utf8(_)
\* the UTF-8 encoding of a unicode: a high surrogate followed by a low one is
\* encoded as one code point, every other code unit by itself
Utf8(cs) ==
    IF cs = << >> THEN << >>
    ELSE IF Len(cs) >= 2 /\ cs[1] \in 55296..56319 /\ cs[2] \in 56320..57343
    THEN Utf8Pair(cs[1], cs[2]) \o Utf8(Tail(Tail(cs)))
    ELSE Utf8Char(Head(cs)) \o Utf8(Tail(cs))

\* message.encode('utf8'): a unicode is encoded; a str is first decoded as
\* ASCII, which raises UnicodeDecodeError (a ValueError) on a byte >= 0x80
EncodeUtf8(io, message) ==
    IF message.kind = "unicode" THEN Ret(io, Utf8(message.v))
    ELSE IF \E i \in 1..Len(message.v) : message.v[i] >= 128
         THEN Raise(io, "UnicodeDecodeError")
         ELSE Ret(io, message.v)

\* the header with the one-byte length form taken up to 126 inclusive
FrameHeader_le126(fin, opcode, l, mask_outgoing) ==
    LET finbit == IF fin THEN 128 ELSE 0
        mask_bit == IF mask_outgoing THEN 128 ELSE 0
    IN  << BitOr(finbit, opcode) >> \o
        (IF l <= 126 THEN << BitOr(l, mask_bit) >>
         ELSE IF l <= 65535 THEN << BitOr(126, mask_bit) >> \o PackH(l)
         ELSE << BitOr(127, mask_bit) >> \o PackQ(l))

\* the header _write_frame builds for a payload of l bytes
FrameHeader(fin, opcode, l, mask_outgoing) ==
    LET finbit == IF fin THEN 128 ELSE 0
        mask_bit == IF mask_outgoing THEN 128 ELSE 0
    IN  << BitOr(finbit, opcode) >> \o
        (IF l < 126 THEN << BitOr(l, mask_bit) >>
         ELSE IF l <= 65535 THEN << BitOr(126, mask_bit) >> \o PackH(l)
         ELSE << BitOr(127, mask_bit) >> \o PackQ(l))

\* _write_frame: the number of bytes that sock.send returned (w) is dropped
Sent(w) == IF w.exc = "none" THEN Ret(w.io, << >>) ELSE w

\* _write_frame(self, fin, opcode, data): with mask_outgoing the call of
\* self._apply_mask, which the class does not define, raises AttributeError
\* before anything is written
_write_frame(io, fin, opcode, data) ==
    IF io.mask THEN Raise(io, "AttributeError")
    ELSE Sent(SockSend(io, FrameHeader(fin, opcode, Len(data), io.mask) \o data))

\* send with the IOError of _write_frame left to the caller
Written_uncaught(w) == w

\* send: an IOError of _write_frame (w) is caught and closes the connection
Written(w) == IF w.exc = "socket.error" THEN Ret(close(w.io), << >>) ELSE w

\* send: the message has been encoded (m)
SendEncoded(m, opcode) ==
    IF m.exc # "none" THEN m ELSE Written(_write_frame(m.io, TRUE, opcode, m.val))

\* send(self, message, binary): binary is tested for truth, whatever its value
send(io, message, binary) ==
    SendEncoded(EncodeUtf8(io, message), IF binary # 0 THEN 2 ELSE 1)

\* ping(self, payload) and pong(self, payload)
ping(io, payload) == send(io, payload, OPCODE_PING)
pong(io, payload) == send(io, payload, OPCODE_PONG)

\* send_close(self, status, reason)
send_close(io, status, reason) ==
    IF status < 0 \/ status >= LENGTH_16 THEN Raise(io, "ValueError")
    ELSE send(io, Str(PackH(status) \o reason), OPCODE_CLOSE)

\* send_handshake_replay(self): None and the empty string are not sent
send_handshake_replay(io) ==
    IF io.reply.kind = "none" \/ io.reply.v = << >> THEN Ret(io, << >>)
    ELSE SockSendAll(io, io.reply.v)

\* ------------------------------------------------------------- receiving
\* what recv_data returns: (opcode, data), data being None after a CLOSE
Message(opcode, data) == [opcode |-> opcode, none |-> FALSE, data |-> data]
MessageNone(opcode) == [opcode |-> opcode, none |-> TRUE, data |-> << >>]

RECURSIVE recv_data(_)

\* recv_data: after self.pong(data), the loop goes on unless pong raised
AfterPong(p) == IF p.exc # "none" THEN p ELSE recv_data(p.io)

\* the body of the loop with a CLOSE frame returned without closing
Dispatch_noclose(io, fr) ==
    IF fr.fin = 0 /\ fr.opcode = 0 /\ fr.data = << >> THEN Raise(io, "ValueError")
    ELSE IF fr.opcode \in {OPCODE_TEXT, OPCODE_BINARY}
    THEN Ret(io, Message(fr.opcode, fr.data))
    ELSE IF fr.opcode = OPCODE_CLOSE THEN Ret(io, MessageNone(fr.opcode))
    ELSE IF fr.opcode = OPCODE_PING THEN AfterPong(pong(io, Str(fr.data)))
    ELSE recv_data(io)

\* the body of the loop with a TEXT or BINARY frame returned only when final
Dispatch_finonly(io, fr) ==
    IF fr.fin = 0 /\ fr.opcode = 0 /\ fr.data = << >> THEN Raise(io, "ValueError")
    ELSE IF fr.opcode \in {OPCODE_TEXT, OPCODE_BINARY} /\ fr.fin = 1
    THEN Ret(io, Message(fr.opcode, fr.data))
    ELSE IF fr.opcode = OPCODE_CLOSE THEN Ret(close(io), MessageNone(fr.opcode))
    ELSE IF fr.opcode = OPCODE_PING THEN AfterPong(pong(io, Str(fr.data)))
    ELSE recv_data(io)

\* the body of the loop with a frame of any other opcode returned to the caller
Dispatch_other(io, fr) ==
    IF fr.fin = 0 /\ fr.opcode = 0 /\ fr.data = << >> THEN Raise(io, "ValueError")
    ELSE IF fr.opcode \in {OPCODE_TEXT, OPCODE_BINARY}
    THEN Ret(io, Message(fr.opcode, fr.data))
    ELSE IF fr.opcode = OPCODE_CLOSE THEN Ret(close(io), MessageNone(fr.opcode))
    ELSE IF fr.opcode = OPCODE_PING THEN AfterPong(pong(io, Str(fr.data)))
    ELSE Ret(io, Message(fr.opcode, fr.data))

\* recv_data: the body of the loop for the frame fr that recv_frame returned
Dispatch(io, fr) ==
    IF fr.fin = 0 /\ fr.opcode = 0 /\ fr.data = << >> THEN Raise(io, "ValueError")
    ELSE IF fr.opcode \in {OPCODE_TEXT, OPCODE_BINARY}
    THEN Ret(io, Message(fr.opcode, fr.data))
    ELSE IF fr.opcode = OPCODE_CLOSE THEN Ret(close(io), MessageNone(fr.opcode))
    ELSE IF fr.opcode = OPCODE_PING THEN AfterPong(pong(io, Str(fr.data)))
    ELSE recv_data(io)

\* the frame fr is added to the record of the frames the call has taken
Taken(io, fr) == [io EXCEPT !.frames = Append(@, fr)]

\* recv_data(self)
recv_data(io) ==
    LET f == recv_frame(io)
    IN  IF f.exc # "none" THEN f ELSE Dispatch(Taken(f.io, f.val), f.val)

\* recv(self)
recv(io) ==
    LET r == recv_data(io)
    IN  IF r.exc # "none" THEN r ELSE Ret(r.io, r.val)

\* ------------------------------------------------------------- inputs
\* what the peer may have sent: frames as RFC 6455 lays them out (fin, opcode,
\* payload; masked with key when key is not empty), written by the peer's own
\* encoder
PeerFrame(fin, opcode, payload, key) ==
    << 128 * fin + opcode, (IF key = << >> THEN 0 ELSE 128) + Len(payload) >> \o key \o
    [i \in 1..Len(payload) |->
        IF key = << >> THEN payload[i] ELSE BitXor(payload[i], key[((i - 1) % 4) + 1])]

PeerKey == << 1, 2, 3, 132 >>

PeerFrames ==
    { PeerFrame(1, OPCODE_PING, << >>, << >>),
      PeerFrame(1, OPCODE_PING, << 104 >>, << >>),
      PeerFrame(1, OPCODE_PING, << 232 >>, << >>),
      PeerFrame(1, OPCODE_TEXT, << 105 >>, << >>),
      PeerFrame(0, OPCODE_TEXT, << >>, << >>),
      PeerFrame(1, OPCODE_BINARY, << 232 >>, << >>),
      PeerFrame(1, OPCODE_CLOSE, << >>, << >>),
      PeerFrame(1, OPCODE_CLOSE, << 3, 232 >>, << >>),
      PeerFrame(1, OPCODE_PONG, << 104 >>, << >>),
      PeerFrame(0, 0, << >>, << >>),
      PeerFrame(1, 0, << >>, << >>),
      PeerFrame(0, 0, << 104 >>, << >>),
      PeerFrame(1, OPCODE_TEXT, << 104 >>, PeerKey) }

\* the byte streams of at most n bytes made of whole peer frames
StreamsUpTo[n \in Nat] ==
    { << >> } \cup
    UNION { { w \o t : t \in StreamsUpTo[n - Len(w)] } :
            w \in { f \in PeerFrames : Len(f) <= n } }

Streams(n) == StreamsUpTo[n]

RECURSIVE Scheds(_)
\* the schedules of at most n short reads: the k-th read returns at most the
\* k-th entry; reads past the schedule return all that was asked for and is there
Scheds(n) ==
    IF n = 0 THEN { << >> }
    ELSE LET S == Scheds(n - 1)
         IN  S \cup { << c >> \o t : c \in {1, 2}, t \in { u \in S : Len(u) = n - 1 } }

\* arguments of the sending calls: every case of each, and one or two of each
Payloads == { << >>, << 104 >>, << 232 >> }
Messages == { Str(<< 104, 105 >>), Str(<< 232 >>), Uni(<< 104, 233 >>),
              Uni(<< 104, 55357, 56832 >>), Uni(<< 56832, 55357 >>) }
Statuses == { 0 - 1, 0, 104, 1000, 65535, 65536, 70000 }
Reasons == { << >>, << 98, 121, 101 >> }
FewPayloads == { << 104 >> }
FewMessages == { Str(<< 104, 105 >>) }
FewStatuses == { 104, 1000 }
FewReasons == { << >> }

\* when the peer goes away while a call runs: never, or once the call has
\* written its k-th frame, the peer having read what was written or not
Stays == [stay |-> 0, rdall |-> TRUE]
Leaves == { Stays } \cup [stay : 1..MaxLeave, rdall : BOOLEAN]

\* what the socket accepts of a write: all of it, or at most 1 or 3 bytes
WholeWrites == { << >> }
Writes == { << >>, << 1 >>, << 3 >> }

\* ------------------------------------------------------------- state
VARIABLES
    closed,          \* self.closed
    mask_outgoing,   \* self.mask_outgoing
    handshake_reply, \* self.handshake_reply
    sock_in,         \* self.sock: bytes the peer sent and no read has returned
    sock_closes,     \* self.sock: number of close() invocations on it
    sock_werr,       \* self.sock: the peer is gone, writes fail
    sock_unread,     \* self.sock: the peer has not read all that was written to it
    sock_rerr,       \* self.sock: the peer went with bytes unread, a read will fail
    last,            \* the last call: arguments, result, what it did to the socket
    codec,           \* the frame a loopback run encodes and decodes, and how far it is
    masking,         \* the key and data a masking run works on, and its results
    framing          \* the payload length a header run encodes and decodes

vars == << closed, mask_outgoing, handshake_reply, sock_in, sock_closes, sock_werr, sock_unread, sock_rerr, last, codec, masking, framing >>

\* None where a string may be given
NoArg == [kind |-> "none", v |-> << >>]

\* a handshake reply: "HTTP/1.1 101\r\n\r\n"
HandshakeReply == Str(<< 72, 84, 84, 80, 47, 49, 46, 49, 32, 49, 48, 49, 13, 10, 13, 10 >>)

NoCall ==
    [op |-> "init", a_num |-> 0, a_kind |-> "none", a_data |-> << >>,
     exc |-> "none", r_opcode |-> 0 - 1, r_none |-> TRUE, r_data |-> << >>,
     out |-> << >>, viol |-> 0, frames |-> << >>, was_closed |-> FALSE, closes |-> 0,
     read |-> << >>, full |-> TRUE, recvs |-> << >>, given |-> << >>]

NoCodec == [stage |-> "none", fin |-> FALSE, opcode |-> 0, data |-> << >>, tail |-> << >>]
NoFraming == [stage |-> 0, fin |-> FALSE, mask |-> FALSE, l |-> 0, header |-> << >>,
              length |-> 0, exc |-> "none", rest |-> << >>]
NoMasking == [stage |-> 0, key |-> << >>, data |-> << >>, once |-> << >>, twice |-> << >>]

\* __init__(self, sock, handshake_reply, mask_outgoing): a connection that does
\* not mask and has a handshake reply to send, the peer having sent any stream
\* of frames.  The connections that mask are followed in SpecSend, SpecCodec and
\* SpecRead, those without a handshake reply in SpecSend.
Init ==
    /\ closed = FALSE
    /\ mask_outgoing = FALSE
    /\ handshake_reply = HandshakeReply
    /\ sock_in \in Streams(SockBuf)
    /\ sock_closes = 0
    /\ sock_werr = FALSE
    /\ sock_unread = FALSE
    /\ sock_rerr = FALSE
    /\ last = NoCall
    /\ codec = NoCodec
    /\ masking = NoMasking
    /\ framing = NoFraming

\* the connection and its socket as a call finds them
Io(sched) ==
    [in |-> sock_in, sched |-> sched, out |-> << >>, closed |-> closed,
     nclose |-> sock_closes, werr |-> sock_werr, mask |-> mask_outgoing, viol |-> 0,
     frames |-> << >>, wsched |-> << >>, recvs |-> << >>, given |-> << >>,
     unread |-> sock_unread, rerr |-> sock_rerr, stay |-> 0, rdall |-> TRUE,
     reply |-> handshake_reply]

\* what a call leaves in last; sched is the schedule of its reads or of its
\* writes, full says that every one of them transfers all that is asked for
Called(op, num, arg, sched, r, msg) ==
    [op |-> op, a_num |-> num, a_kind |-> arg.kind, a_data |-> arg.v, exc |-> r.exc,
     r_opcode |-> msg.opcode, r_none |-> msg.none, r_data |-> msg.data,
     out |-> r.io.out, viol |-> r.io.viol, frames |-> r.io.frames,
     was_closed |-> closed, closes |-> r.io.nclose - sock_closes,
     read |-> SubSeq(sock_in, 1, Len(sock_in) - Len(r.io.in)), full |-> sched = << >>,
     recvs |-> r.io.recvs, given |-> r.io.given]

\* the call has run with result r: the connection and socket are as it left them
Done(op, num, arg, sched, r, msg) ==
    /\ r.io.nclose <= MaxCloses
    /\ closed' = r.io.closed
    /\ sock_in' = r.io.in
    /\ sock_closes' = r.io.nclose
    /\ sock_werr' = r.io.werr
    /\ sock_unread' = r.io.unread
    /\ sock_rerr' = r.io.rerr
    /\ last' = Called(op, num, arg, sched, r, msg)
    /\ UNCHANGED << mask_outgoing, handshake_reply, codec, masking, framing >>

Nothing == MessageNone(0 - 1)

\* the connection and its socket as a sending call finds them, the socket
\* accepting at most w[k] bytes at the k-th write
IoW(w) == [Io(<< >>) EXCEPT !.wsched = w]

CallSend(message, binary, w) ==
    Done("send", binary, message, w, send(IoW(w), message, binary), Nothing)

CallPing(payload, w) ==
    Done("ping", 0, Str(payload), w, ping(IoW(w), Str(payload)), Nothing)

CallPong(payload, w) ==
    Done("pong", 0, Str(payload), w, pong(IoW(w), Str(payload)), Nothing)

CallSendClose(status, reason, w) ==
    Done("send_close", status, Str(reason), w,
         send_close(IoW(w), status, reason), Nothing)

\* the connection and its socket as a receiving call finds them, the peer
\* going away as g says while the call runs
IoR(sched, g) == [Io(sched) EXCEPT !.stay = g.stay, !.rdall = g.rdall]

\* what it takes for the peer to go away as g says while a receiving call runs:
\* the call gets g.stay writes accepted, each of them the answer to a PING frame
CanLeave(g) ==
    \/ g.stay = 0
    \/ /\ ~sock_werr /\ sock_closes = 0 /\ ~mask_outgoing
       /\ Cardinality({ i \in 1..Len(sock_in) : sock_in[i] % 16 = OPCODE_PING }) >= g.stay

\* the peer has gone away as the call was told it would, if it was to go at all
Left(r) == r.io.stay = 0

CallRecvData(sched, g) ==
    /\ CanLeave(g)
    /\ LET r == recv_data(IoR(sched, g))
       IN  /\ Left(r)
           /\ Done("recv_data", 0, NoArg, sched, r,
                   IF r.exc = "none" THEN r.val ELSE Nothing)

CallRecv(sched, g) ==
    /\ CanLeave(g)
    /\ LET r == recv(IoR(sched, g))
       IN  /\ Left(r)
           /\ Done("recv", 0, NoArg, sched, r,
                   IF r.exc = "none" THEN [r.val EXCEPT !.opcode = 0 - 1] ELSE Nothing)

CallSendHandshakeReplay ==
    Done("send_handshake_replay", 0, NoArg, << >>, send_handshake_replay(Io(<< >>)), Nothing)

CallClose ==
    Done("close", 0, NoArg, << >>, Ret(close(Io(<< >>)), << >>), Nothing)

\* the peer goes away between two calls, having read all that was written to
\* it (rdall) or not: from now on a write on the socket fails
PeerReset(rdall) ==
    /\ ~sock_werr
    /\ sock_werr' = TRUE
    /\ sock_unread' = FALSE
    /\ sock_rerr' = (sock_unread /\ ~rdall)
    /\ UNCHANGED << closed, mask_outgoing, handshake_reply, sock_in, sock_closes, last, codec, masking, framing >>

\* the sending calls with arguments from the given sets
Sends(M, P, S, R, W) ==
    \/ \E m \in M, b \in {0, 1}, w \in W : CallSend(m, b, w)
    \/ \E p \in P, w \in W : CallPing(p, w)
    \/ \E p \in P, w \in W : CallPong(p, w)
    \/ \E st \in S, t \in R, w \in W : CallSendClose(st, t, w)

Next ==
    \/ Sends(FewMessages, FewPayloads, FewStatuses, FewReasons, WholeWrites)
    \/ \E c \in Scheds(MaxSched), g \in Leaves : CallRecvData(c, g)
    \/ \E g \in Leaves : CallRecv(<< >>, g)
    \/ CallSendHandshakeReplay
    \/ CallClose
    \/ \E rdall \in BOOLEAN : PeerReset(rdall)

Spec == Init /\ [][Next]_vars

\* the sending side alone, every argument: the peer has sent nothing
InitSend ==
    /\ closed = FALSE
    /\ mask_outgoing \in BOOLEAN
    /\ handshake_reply \in { NoArg, Str(<< >>), HandshakeReply }
    /\ sock_in = << >>
    /\ sock_closes = 0
    /\ sock_werr = FALSE
    /\ sock_unread = FALSE
    /\ sock_rerr = FALSE
    /\ last = NoCall
    /\ codec = NoCodec
    /\ masking = NoMasking
    /\ framing = NoFraming

NextSend ==
    \/ Sends(Messages, Payloads, Statuses, Reasons, Writes)
    \/ CallSendHandshakeReplay
    \/ CallClose
    \/ \E rdall \in BOOLEAN : PeerReset(rdall)

SpecSend == InitSend /\ [][NextSend]_vars

\* ------------------------------------------------------------- loopback
\* One frame through _write_frame and back through recv_frame: what the
\* connection writes is what its socket then has to read, followed by tail.
\* Everything written has arrived, so a read returns all that it asks for.
CodecPayloads == { << >>, << 104 >>, << 232, 0, 255 >>, [i \in 1..126 |-> i] }
CodecTails == { << >>, << 129 >>, << 129, 1, 105 >> }

InitCodec ==
    /\ closed = FALSE
    /\ mask_outgoing \in BOOLEAN
    /\ handshake_reply = NoArg
    /\ sock_in = << >>
    /\ sock_closes = 0
    /\ sock_werr = FALSE
    /\ sock_unread = FALSE
    /\ sock_rerr = FALSE
    /\ last = NoCall
    /\ masking = NoMasking
    /\ framing = NoFraming
    /\ codec \in [stage : {"start"}, fin : BOOLEAN, opcode : 0..15,
                  data : CodecPayloads, tail : CodecTails]

\* the bytes a call has put on the wire
Wire(out) == IF out = << >> THEN << >> ELSE Head(out)

CodecWrite ==
    /\ codec.stage = "start"
    /\ LET r == _write_frame(Io(<< >>), codec.fin, codec.opcode, codec.data)
       IN  /\ last' = Called("_write_frame", codec.opcode, Str(codec.data), << >>, r, Nothing)
           /\ sock_in' = Wire(r.io.out) \o codec.tail
           /\ closed' = r.io.closed
           /\ sock_closes' = r.io.nclose
    /\ codec' = [codec EXCEPT !.stage = "written"]
    /\ UNCHANGED << mask_outgoing, handshake_reply, sock_werr, sock_unread, sock_rerr, masking, framing >>

CodecRead ==
    /\ codec.stage = "written"
    /\ LET r == recv_frame(Io(<< >>))
       IN  /\ last' = Called("recv_frame", 0, NoArg, << >>,
                             IF r.exc = "none" THEN [r EXCEPT !.io = Taken(r.io, r.val)] ELSE r,
                             Nothing)
           /\ sock_in' = r.io.in
           /\ closed' = r.io.closed
           /\ sock_closes' = r.io.nclose
    /\ codec' = [codec EXCEPT !.stage = "read"]
    /\ UNCHANGED << mask_outgoing, handshake_reply, sock_werr, sock_unread, sock_rerr, masking, framing >>

NextCodec == CodecWrite \/ CodecRead

SpecCodec == InitCodec /\ [][NextCodec]_vars

\* ------------------------------------------------------------- masking
\* mask_or_unmask applied to a payload, and again to the result
MaskLen == 5
MaskBytes == { 0, 104, 255 }
MaskKeys == { << 0, 0, 0, 0 >>, << 1, 2, 3, 132 >>, << 255, 170, 85, 15 >> }

InitMask ==
    /\ closed = FALSE
    /\ mask_outgoing = FALSE
    /\ handshake_reply = NoArg
    /\ sock_in = << >>
    /\ sock_closes = 0
    /\ sock_werr = FALSE
    /\ sock_unread = FALSE
    /\ sock_rerr = FALSE
    /\ last = NoCall
    /\ codec = NoCodec
    /\ framing = NoFraming
    /\ \E n \in 0..MaskLen : \E k \in MaskKeys : \E d \in [1..n -> MaskBytes] :
         masking = [stage |-> 0, key |-> k, data |-> d, once |-> << >>, twice |-> << >>]

MaskOnce ==
    /\ masking.stage = 0
    /\ masking' = [masking EXCEPT !.stage = 1,
                                  !.once = mask_or_unmask(masking.key, masking.data)]
    /\ UNCHANGED << closed, mask_outgoing, handshake_reply, sock_in, sock_closes, sock_werr, sock_unread, sock_rerr, last, codec, framing >>

MaskTwice ==
    /\ masking.stage = 1
    /\ masking' = [masking EXCEPT !.stage = 2,
                                  !.twice = mask_or_unmask(masking.key, masking.once)]
    /\ UNCHANGED << closed, mask_outgoing, handshake_reply, sock_in, sock_closes, sock_werr, sock_unread, sock_rerr, last, codec, framing >>

NextMask == MaskOnce \/ MaskTwice

SpecMask == InitMask /\ [][NextMask]_vars

\* ------------------------------------------------------------- reading
\* _recv_strict, recv_frame and recv_data on streams that end anywhere: after
\* whole frames, inside a frame, or before the first byte.
ReadBuf == 4
MaxRead == 3

Prefixes(w) == { SubSeq(w, 1, k) : k \in 0..Len(w) }
ReadStreams == UNION { Prefixes(w) : w \in Streams(ReadBuf) }

InitRead ==
    /\ closed = FALSE
    /\ mask_outgoing \in BOOLEAN
    /\ handshake_reply = NoArg
    /\ sock_in \in ReadStreams
    /\ sock_closes = 0
    /\ sock_werr = FALSE
    /\ sock_unread = FALSE
    /\ sock_rerr = FALSE
    /\ last = NoCall
    /\ codec = NoCodec
    /\ masking = NoMasking
    /\ framing = NoFraming

CallRecvStrict(bufsize, sched) ==
    LET r == _recv_strict(Io(sched), bufsize)
    IN  Done("_recv_strict", bufsize, NoArg, sched, r,
             IF r.exc = "none" THEN Message(0 - 1, r.val) ELSE Nothing)

\* the frame recv_frame returns is recorded as the frame taken
CallRecvFrame(sched) ==
    LET r == recv_frame(Io(sched))
    IN  Done("recv_frame", 0, NoArg, sched,
             IF r.exc = "none" THEN [r EXCEPT !.io = Taken(r.io, r.val)] ELSE r, Nothing)

NextRead ==
    \/ \E n \in 0..MaxRead : \E c \in Scheds(MaxSched) : CallRecvStrict(n, c)
    \/ \E c \in Scheds(MaxSched) : CallRecvFrame(c)
    \/ \E c \in Scheds(MaxSched) : CallRecvData(c, Stays)
    \/ CallClose

SpecRead == InitRead /\ [][NextRead]_vars

\* ------------------------------------------------------------- lengths
\* The header _write_frame builds for a payload of l bytes, and the length
\* recv_frame computes from the bytes of that header.
Lengths == { 0, 1, 2, 124, 125, 126, 127, 128, 255, 256, 65534, 65535, 65536, 65537,
             16777216, 2147483647 }

InitLen ==
    /\ closed = FALSE
    /\ mask_outgoing = FALSE
    /\ handshake_reply = NoArg
    /\ sock_in = << >>
    /\ sock_closes = 0
    /\ sock_werr = FALSE
    /\ sock_unread = FALSE
    /\ sock_rerr = FALSE
    /\ last = NoCall
    /\ codec = NoCodec
    /\ masking = NoMasking
    /\ framing \in [stage : {0}, fin : BOOLEAN, mask : BOOLEAN, l : Lengths,
                    header : {<< >>}, length : {0}, exc : {"none"}, rest : {<< >>}]

\* _write_frame up to the length bytes
LenEncode ==
    /\ framing.stage = 0
    /\ framing' = [framing EXCEPT
                      !.stage = 1,
                      !.header = FrameHeader(framing.fin, OPCODE_BINARY, framing.l, framing.mask)]
    /\ UNCHANGED << closed, mask_outgoing, handshake_reply, sock_in, sock_closes, sock_werr, sock_unread, sock_rerr, last, codec,
                    masking >>

\* recv_frame, up to the length, on the bytes ext read after the two header bytes h
LenRead(h, ext) ==
    [framing EXCEPT !.stage = 2,
                    !.exc = IF h.exc # "none" THEN h.exc ELSE ext.exc,
                    !.length = IF h.exc # "none" \/ ext.exc # "none" THEN 0 - 1
                               ELSE FrameLength(h.val[2], ext.val),
                    !.rest = IF h.exc # "none" THEN h.io.in ELSE ext.io.in]

\* recv_frame up to the length, on a stream that holds the header
LenDecode ==
    /\ framing.stage = 1
    /\ LET h == _recv_strict([Io(<< >>) EXCEPT !.in = framing.header], 2)
       IN  framing' = LenRead(h, IF h.exc # "none" THEN h ELSE ReadExt(h.io, h.val[2]))
    /\ UNCHANGED << closed, mask_outgoing, handshake_reply, sock_in, sock_closes, sock_werr, sock_unread, sock_rerr, last, codec,
                    masking >>

NextLen == LenEncode \/ LenDecode

SpecLen == InitLen /\ [][NextLen]_vars

\* ------------------------------------------------------------- properties
\* the stream as the last call found it
Before == last.read \o sock_in

\* the last call ran on an open connection whose socket takes writes, with
\* every read returning what was asked for, and frames are not masked on output
Plain == ~last.was_closed /\ ~sock_werr /\ ~mask_outgoing /\ last.full

\* s starts with a final unmasked PING frame followed by a final unmasked TEXT frame
StartsPingText(s) ==
    /\ Len(s) >= 4
    /\ s[1] = 128 + OPCODE_PING
    /\ s[2] < 126
    /\ Len(s) >= 4 + s[2]
    /\ s[3 + s[2]] = 128 + OPCODE_TEXT
    /\ s[4 + s[2]] < 126
    /\ Len(s) >= 4 + s[2] + s[4 + s[2]]

\* C1: when the stream holds a PING frame with payload P and then a TEXT frame
\* with payload T, one recv_data call writes exactly one PONG frame carrying P
\* and returns (TEXT, T).
C1_PingAutoPong ==
    (last.op = "recv_data" /\ Plain /\ StartsPingText(Before)) =>
        LET s == Before
            P == SubSeq(s, 3, 2 + s[2])
            T == SubSeq(s, 5 + s[2], 4 + s[2] + s[4 + s[2]])
        IN  /\ last.exc = "none"
            /\ last.out = << << 128 + OPCODE_PONG, Len(P) >> \o P >>
            /\ last.r_opcode = OPCODE_TEXT
            /\ ~last.r_none
            /\ last.r_data = T

\* C2: once self.closed is set, no call attempts a read or a write on the
\* socket, the rest of a recv_data loop whose PONG reply failed included.
C2_NoIoOnceClosed == last.viol = 0

\* C3: over any sequence of calls the socket is released, sock.close() invoked,
\* at most once.
C3_ReleasedAtMostOnce == sock_closes <= 1

\* C4: for every status in [0, 65536) and every reason, send_close succeeds and
\* writes exactly one CLOSE frame whose payload is the big-endian 16-bit status
\* followed by the reason.
C4_SendCloseFrame ==
    (last.op = "send_close" /\ Plain /\ last.a_num >= 0 /\ last.a_num < 65536) =>
        /\ last.exc = "none"
        /\ last.out = << PeerFrame(1, OPCODE_CLOSE,
                                   << last.a_num \div 256, last.a_num % 256 >> \o last.a_data,
                                   << >>) >>

\* the exceptions that are instances of ValueError
ValueErrors == { "ValueError", "UnicodeDecodeError" }

\* C5: send_close fails with a ValueError exactly when status < 0 or
\* status >= 65536, and then nothing is written and self.closed is unchanged.
C5_InvalidArgument ==
    last.op = "send_close" =>
        /\ (last.exc \in ValueErrors) <=> (last.a_num < 0 \/ last.a_num >= 65536)
        /\ (last.exc \in ValueErrors) => (last.out = << >> /\ closed = last.was_closed)

\* C6: ping(payload) writes exactly one final PING frame and pong(payload)
\* exactly one final PONG frame, each carrying the payload.
C6_PingPongFrames ==
    (last.op \in {"ping", "pong"} /\ Plain) =>
        /\ last.exc = "none"
        /\ last.out = << PeerFrame(1, IF last.op = "ping" THEN OPCODE_PING ELSE OPCODE_PONG,
                                   last.a_data, << >>) >>

\* s starts with a whole unmasked frame whose opcode is CLOSE
StartsClose(s) ==
    /\ Len(s) >= 2
    /\ s[1] % 16 = OPCODE_CLOSE
    /\ s[2] < 126
    /\ Len(s) >= 2 + s[2]

\* C7: when the frame recv_data takes from the stream has opcode CLOSE, whatever
\* its payload, recv_data returns (CLOSE, None) with self.closed set and the
\* socket released by this call; and it does take that frame when the stream
\* starts with it and the reads return what they ask for.
C7_CloseFrame ==
    last.op = "recv_data" =>
        /\ \A i \in 1..Len(last.frames) :
              last.frames[i].opcode = OPCODE_CLOSE =>
                  /\ i = Len(last.frames)
                  /\ last.exc = "none"
                  /\ last.r_opcode = OPCODE_CLOSE
                  /\ last.r_none
                  /\ closed
                  /\ last.closes = 1
                  /\ sock_closes >= 1
        /\ (~last.was_closed /\ last.full /\ StartsClose(Before)) =>
              /\ Len(last.frames) = 1
              /\ last.frames[1].opcode = OPCODE_CLOSE
              /\ last.read = SubSeq(Before, 1, 2 + Before[2])

\* a recv_data call took a CLOSE frame with a payload and returned (CLOSE, None)
C7_Witness ==
    /\ last.op = "recv_data"
    /\ Len(last.frames) = 1
    /\ last.frames[1].opcode = OPCODE_CLOSE
    /\ last.frames[1].data = << 3, 232 >>
    /\ last.r_opcode = OPCODE_CLOSE
    /\ last.r_none
    /\ closed
    /\ sock_closes = 1

\* C8: without masking, what _write_frame writes for (fin, opcode, payload) is
\* read back by recv_frame as the same fin, opcode and payload, and recv_frame
\* consumes the bytes of that frame and no more.
C8_RoundTrip ==
    (~mask_outgoing /\ codec.stage \in {"written", "read"}) =>
        /\ last.exc = "none"
        /\ codec.stage = "written" =>
              /\ Len(last.out) = 1
              /\ sock_in = last.out[1] \o codec.tail
        /\ codec.stage = "read" =>
              /\ last.frames = << Frame(IF codec.fin THEN 1 ELSE 0, codec.opcode, codec.data) >>
              /\ sock_in = codec.tail
              /\ Len(last.read) >= 2 + Len(codec.data)

\* a non-final frame of opcode 0 with a 126-byte payload went through, with the
\* bytes after it left on the stream
C8_Witness ==
    /\ ~mask_outgoing
    /\ codec.stage = "read"
    /\ ~codec.fin
    /\ codec.opcode = 0
    /\ Len(codec.data) = 126
    /\ codec.tail = << 129, 1, 105 >>
    /\ last.exc = "none"
    /\ last.frames[1].data = codec.data
    /\ Len(last.read) = 130
    /\ sock_in = codec.tail

\* the header of a frame of l payload bytes takes this many bytes
HeaderLen(l) == IF l < 126 THEN 2 ELSE IF l <= 65535 THEN 4 ELSE 10

\* C9: with mask_outgoing, _write_frame succeeds and writes a frame with the
\* MASK bit set, then a 4-byte key K, then the payload XOR-ed with K, and
\* recv_frame recovers the payload from it.
C9_MaskedRoundTrip ==
    (mask_outgoing /\ codec.stage \in {"written", "read"}) =>
        /\ last.exc = "none"
        /\ codec.stage = "written" =>
              /\ Len(last.out) = 1
              /\ LET f == last.out[1]
                     n == Len(codec.data)
                     h == HeaderLen(n)
                 IN  /\ Len(f) = h + 4 + n
                     /\ f[2] >= 128
                     /\ \A i \in 1..n :
                           f[h + 4 + i] = BitXor(codec.data[i], f[h + ((i - 1) % 4) + 1])
        /\ codec.stage = "read" =>
              /\ Len(last.frames) = 1
              /\ last.frames[1].data = codec.data

\* bit b of the byte x
Bit(x, b) == (x \div (2 ^ b)) % 2 = 1

\* C10: mask_or_unmask(K, P) has the length of P, its byte i is P[i] XOR
\* K[i mod 4] (indices from 0), and applying it again with K gives P back.
C10_MaskInvolution ==
    /\ masking.stage >= 1 =>
          /\ Len(masking.once) = Len(masking.data)
          /\ \A i \in 0..(Len(masking.data) - 1) :
                /\ masking.once[i + 1] \in 0..255
                /\ \A b \in 0..7 :
                      Bit(masking.once[i + 1], b) <=>
                          (Bit(masking.data[i + 1], b) # Bit(masking.key[(i % 4) + 1], b))
    /\ masking.stage = 2 => masking.twice = masking.data

\* a payload of five bytes was masked into something else and unmasked again
C10_Witness ==
    /\ masking.stage = 2
    /\ Len(masking.data) = 5
    /\ masking.once # masking.data
    /\ masking.once[5] = BitXor(masking.data[5], masking.key[1])
    /\ masking.key[1] # 0
    /\ masking.twice = masking.data

\* C11: the header carries the length in the one-byte form exactly when l <= 125,
\* in the form 126 + two bytes big-endian exactly when 126 <= l <= 0xFFFF, in the
\* form 127 + eight bytes big-endian exactly when l >= 0x10000, and the length
\* recv_frame computes from the header is l.
C11_LengthForms ==
    /\ framing.stage >= 1 =>
          LET h == framing.header
              l == framing.l
              code == h[2] % 128
          IN  /\ (Len(h) = 2) <=> (l <= 125)
              /\ (Len(h) = 4) <=> (126 <= l /\ l <= 65535)
              /\ (Len(h) = 10) <=> (l >= 65536)
              /\ Len(h) \in {2, 4, 10}
              /\ Len(h) = 2 => code = l
              /\ Len(h) = 4 => (code = 126 /\ 256 * h[3] + h[4] = l)
              /\ Len(h) = 10 =>
                    /\ code = 127
                    /\ \A i \in 3..6 : h[i] = 0
                    /\ 16777216 * h[7] + 65536 * h[8] + 256 * h[9] + h[10] = l
              /\ \A i \in 1..Len(h) : h[i] \in 0..255
              /\ (h[2] >= 128) <=> framing.mask
    /\ framing.stage = 2 =>
          /\ framing.exc = "none"
          /\ framing.length = framing.l
          /\ framing.rest = << >>

\* a length at a boundary, 125, 126, 0xFFFF or 0x10000, has been encoded and decoded
C11_Witness ==
    /\ framing.stage = 2
    /\ framing.l \in {125, 126, 65535, 65536}
    /\ framing.length = framing.l
    /\ Len(framing.header) = (IF framing.l = 125 THEN 2 ELSE IF framing.l = 65536 THEN 10 ELSE 4)

\* the call found the connection open, its socket open and the peer present
Open == ~last.was_closed /\ last.viol = 0

\* C12: when the stream holds at least n bytes, _recv_strict(n) returns its first
\* n unread bytes and consumes exactly those, however the bytes are split over
\* the reads, so that the bytes of the next frame stay in the stream.
C12_ReadExact ==
    (last.op = "_recv_strict" /\ Open /\ Len(Before) >= last.a_num) =>
        /\ last.exc = "none"
        /\ last.r_data = SubSeq(Before, 1, last.a_num)
        /\ last.read = SubSeq(Before, 1, last.a_num)

\* the stream ends before the n bytes _recv_strict(n) is to return
EndsShort == last.op = "_recv_strict" /\ Open /\ Len(Before) < last.a_num

\* C13: when the stream ends before n bytes, _recv_strict(n) raises socket.error
\* at the read that returns no byte, the last read it makes; _recv_strict(0) makes
\* no read and returns the empty string.
C13_EndOfStream ==
    /\ EndsShort =>
          /\ last.exc = "socket.error"
          /\ last.recvs # << >>
          /\ \A i \in 1..Len(last.recvs) : (last.recvs[i] = 0) <=> (i = Len(last.recvs))
          /\ last.read = Before
    /\ (last.op = "_recv_strict" /\ last.a_num = 0) =>
          /\ last.exc = "none"
          /\ ~last.r_none /\ last.r_data = << >>
          /\ last.recvs = << >> /\ last.read = << >> /\ last.viol = 0

\* a stream that ended after one byte of the two asked for
C13_Witness ==
    EndsShort /\ last.a_num = 2 /\ Len(Before) = 1 /\ last.recvs = << 1, 0 >>

\* the sending calls
SendOps == { "send", "ping", "pong", "send_close" }

\* the call handed a frame to sock.send and sock.send raised
WriteFailed == last.op \in SendOps /\ Len(last.given) > Len(last.out)

\* C14: when sock.send raises during send, ping, pong or send_close, the call
\* returns normally, self.closed is set and sock.close() has been invoked by it.
C14_WriteErrorCloses ==
    WriteFailed =>
        /\ last.exc = "none"
        /\ closed
        /\ last.closes = 1
        /\ last.out = << >>

\* the peer went away while the connection was open, then each call was made
C14_Witness ==
    /\ WriteFailed /\ ~last.was_closed /\ sock_werr
    /\ closed /\ sock_closes = 1

\* the bytes send is to carry: the UTF-8 encoding of a text, the bytes of a byte
\* string
Carried == IF last.a_kind = "unicode" THEN Utf8(last.a_data) ELSE last.a_data

\* C15: send(message, binary=False) writes exactly one final TEXT frame carrying
\* the UTF-8 encoding of message, send(B, binary=True) exactly one final BINARY
\* frame carrying B, for every byte string B.
C15_SendFrame ==
    (last.op = "send" /\ Plain
        /\ (last.a_num # 0 \/ last.a_kind = "unicode"
                \/ \A i \in 1..Len(last.a_data) : last.a_data[i] < 128)) =>
        /\ last.exc = "none"
        /\ last.given = << PeerFrame(1, IF last.a_num # 0 THEN OPCODE_BINARY ELSE OPCODE_TEXT,
                                     Carried, << >>) >>
        /\ last.out = last.given

\* C17: when a sending call returns with the connection left open, one
\* sock.send call has been made and the socket has taken every byte of the frame.
C17_WholeFrameWritten ==
    (last.op \in SendOps /\ last.exc = "none" /\ last.closes = 0) =>
        /\ Len(last.given) = 1
        /\ last.out = last.given

\* C16: when the stream ends before the first header byte, recv_frame returns the
\* absent frame (None, None, None) and recv_data raises ValueError; socket.error
\* is raised only when the stream ends after at least one byte has been read.
C16_AbsentFrame ==
    (last.op \in {"recv_frame", "recv_data"} /\ Open) =>
        /\ (Before = << >> /\ last.op = "recv_frame") =>
              (last.exc = "none" /\ last.frames = << NoFrame >>)
        /\ (Before = << >> /\ last.op = "recv_data") => last.exc = "ValueError"
        /\ last.exc = "socket.error" => last.read # << >>

\* the frames a recv_data call has taken that hold a PING
Pings == { i \in 1..Len(last.frames) : last.frames[i].opcode = OPCODE_PING }

\* the frames a recv_data call has taken that hold a TEXT or BINARY message
Messages12 ==
    { i \in 1..Len(last.frames) :
        ~last.frames[i].none /\ last.frames[i].opcode \in {OPCODE_TEXT, OPCODE_BINARY} }

\* the number of bytes of the frame whose first bytes are s and whose payload is
\* data (payloads below 126 bytes)
FrameBytes(s, data) == 2 + (IF s[2] >= 128 THEN 4 ELSE 0) + Len(data)

\* C18: a TEXT or BINARY frame that recv_data takes from recv_frame is returned
\* at once as (opcode, payload), final or not, empty or not: it is the last frame
\* the call takes, the only writes of the call are the answers to the PING frames
\* before it, and a call whose first frame it is reads that frame only, writes
\* nothing and leaves self.closed as it was.
C18_DataFrameReturned ==
    last.op = "recv_data" =>
        \A i \in Messages12 :
            /\ i = Len(last.frames)
            /\ last.exc = "none"
            /\ ~last.r_none
            /\ last.r_opcode = last.frames[i].opcode
            /\ last.r_data = last.frames[i].data
            /\ Len(last.given) = Cardinality(Pings)
            /\ i = 1 =>
                  /\ Len(last.read) = FrameBytes(last.read, last.frames[1].data)
                  /\ last.given = << >>
                  /\ last.closes = 0
                  /\ closed = last.was_closed

\* a non-final TEXT frame with an empty payload has been returned, with bytes of
\* the next frame left in the stream
C18_Witness ==
    /\ last.op = "recv_data" /\ Len(last.frames) = 1 /\ last.exc = "none"
    /\ last.frames[1].opcode = OPCODE_TEXT /\ last.frames[1].fin = 0
    /\ last.frames[1].data = << >>
    /\ last.r_opcode = OPCODE_TEXT /\ last.r_data = << >> /\ ~last.r_none
    /\ sock_in # << >>

\* C19: recv_data raises ValueError only when recv_frame returned the absent
\* frame; a frame that was decoded, the non-final frame of opcode 0 with an empty
\* payload included, never makes it raise ValueError.
C19_InvalidFrameOnlyAbsent ==
    (last.op = "recv_data" /\ last.exc = "ValueError") =>
        /\ last.frames # << >>
        /\ last.frames[Len(last.frames)].none

\* the frames a recv_data call has taken whose opcode is none of TEXT, BINARY,
\* CLOSE and PING, the non-final frame of opcode 0 without payload left aside
Others ==
    { i \in 1..Len(last.frames) :
        /\ ~last.frames[i].none
        /\ last.frames[i].opcode \notin {OPCODE_TEXT, OPCODE_BINARY, OPCODE_CLOSE, OPCODE_PING}
        /\ ~(last.frames[i].fin = 0 /\ last.frames[i].opcode = 0
                /\ last.frames[i].data = << >>) }

\* C20: a frame whose opcode is none of TEXT, BINARY, CLOSE and PING is dropped
\* by recv_data: the call does not return it but goes on to the next frame, and
\* returns the TEXT, BINARY or CLOSE frame it then finds; the frame causes no
\* write (the call writes at most one frame for each PING frame it takes) and no
\* change of self.closed.
C20_OtherFramesDropped ==
    last.op = "recv_data" =>
        \A i \in Others :
            /\ last.exc = "none" =>
                  /\ i < Len(last.frames)
                  /\ last.r_opcode = last.frames[Len(last.frames)].opcode
                  /\ last.r_opcode \in {OPCODE_TEXT, OPCODE_BINARY, OPCODE_CLOSE}
            /\ (i = Len(last.frames) /\ Open) =>
                  (last.exc = "socket.error" /\ last.recvs # << >>)
            /\ Len(last.given) <= Cardinality(Pings)
            /\ (\A j \in 1..Len(last.frames) :
                    last.frames[j].opcode \notin {OPCODE_PING, OPCODE_CLOSE}) =>
                  (last.closes = 0 /\ closed = last.was_closed)

\* a PONG frame with a payload, then a TEXT frame that is returned
C20_Witness ==
    /\ last.op = "recv_data" /\ Len(last.frames) = 2 /\ Others = {1}
    /\ last.frames[1].opcode = OPCODE_PONG /\ last.frames[1].data # << >>
    /\ last.exc = "none" /\ last.r_opcode = OPCODE_TEXT /\ last.given = << >>
    /\ ~closed

====
